---------------------------- MODULE Spec2Model ----------------------------
(***************************************************************************)
(* A model of backend/python/imslp_enrich.py: the retrying fetcher         *)
(* (get_with_retry), the target resolver (extract_title) and the           *)
(* metadata aggregation of main.                                           *)
(*                                                                         *)
(* Strings that the program inspects character by character (the target,   *)
(* titles, slugs) are sequences of one-character strings.  Python's None   *)
(* is the empty sequence <<>> and a present value v is <<v>> wherever a     *)
(* field is optional.  A delay is a fraction <<numerator, denominator>>.   *)
(***************************************************************************)
EXTENDS Integers, Sequences, FiniteSets, TLC

VARIABLES
    pc,         \* the position of the running code
    log,        \* the requests issued and the sleeps taken, in order
    tries,      \* get_with_retry: parameter tries
    backoff,    \* get_with_retry: parameter backoff, a fraction
    i,          \* get_with_retry: the loop index
    delay,      \* get_with_retry: local delay, a fraction
    last,       \* get_with_retry: local last (None is <<>>)
    r,          \* what get_with_retry gave its caller: a response or a raise
    transport,  \* what requests.get does on the 1st, 2nd, ... request of the call
    url,        \* get_with_retry: the endpoint and query asked for
    retpc,      \* where the caller continues
    target,     \* extract_title: parameter target
    data,       \* extract_title: local data, the parsed body (None before r.json())
    r2,         \* extract_title: local r2, the answer for the HTML page
    ret,        \* extract_title: what the call gave back (None while it runs)
    argv,       \* sys.argv
    title,      \* main: local title as resolved (None before)
    page,       \* main: local page, the page object last fetched
    attempts,   \* main: local attempts
    metadata,   \* main: local metadata, the document being assembled
    temp_files, \* main: local temp_files
    titles,     \* main: local titles
    by_title,   \* main: local by_title
    ci,         \* main: the chunk loop's index i
    stdout,     \* the documents printed
    exit,       \* the exit status (None while running)
    remote      \* the wiki's file table: title -> imageinfo list

gwrVars == <<tries, backoff, i, delay, last, r, transport, url, retpc>>
etVars == <<target, data, r2, ret>>
fileVars == <<temp_files, titles, by_title, ci>>
mainVars == <<argv, title, page, attempts, metadata, fileVars, stdout, exit, remote>>
vars == <<pc, log, gwrVars, etVars, mainVars>>

-----------------------------------------------------------------------------
(* Bounds *)

MaxTries == 3      \* get_with_retry on its own: the largest tries
MaxSegs == 3       \* the most segments a generated target is made of
MaxPages == 2      \* the most page entries in a structured response
MaxCats == 1       \* the most categories of a page
MaxImgs == 2       \* the most images a page lists
MaxRevs == 2       \* the most revisions a page lists
MaxMerge == 2      \* the most records reconciled when the merge loop runs on its own
MaxListed == 120   \* the most images a page lists when the file section runs on its own

-----------------------------------------------------------------------------
(* Values *)

None == <<>>
Some(v) == <<v>>

Max(a, b) == IF a >= b THEN a ELSE b
Min(a, b) == IF a <= b THEN a ELSE b

RECURSIVE Pow(_, _)
Pow(b, k) == IF k = 0 THEN 1 ELSE b * Pow(b, k - 1)

\* All sequences over S of length exactly n.
RECURSIVE SeqsOfLen(_, _)
SeqsOfLen(S, n) ==
    IF n = 0 THEN {<<>>}
    ELSE {Append(s, x) : s \in SeqsOfLen(S, n - 1), x \in S}

\* All sequences over S of length at most n.
SeqsUpTo(S, n) == UNION {SeqsOfLen(S, k) : k \in 0..n}

-----------------------------------------------------------------------------
(* The HTTP transport, requests.get: a request either raises a transport   *)
(* error or returns a response carrying a status code.                     *)

Errors == {"ConnectionError", "Timeout"}
Statuses == {200, 404, 500}

ErrorOutcome(e) == [kind |-> "error", err |-> e, status |-> 0]
ResponseOutcome(s) == [kind |-> "response", err |-> "", status |-> s]
Outcomes == {ErrorOutcome(e) : e \in Errors} \cup {ResponseOutcome(s) : s \in Statuses}

\* requests.Response.ok
Ok(resp) == resp.status < 400

NoResult == [kind |-> "none", err |-> "", status |-> 0]
Raised(e) == [kind |-> "raised", err |-> e, status |-> 0]

GetEvent(u) == [ev |-> "get", url |-> u, delay |-> <<0, 1>>]
SleepEvent(d) == [ev |-> "sleep", url |-> "", delay |-> d]

\* What the k-th request of the current call meets.
Outcome(k) ==
    IF k \in 1..Len(transport) THEN transport[k] ELSE ErrorOutcome("ConnectionError")

-----------------------------------------------------------------------------
(* get_with_retry(url, params, timeout, tries, backoff)                    *)

InitialDelay == <<1, 1>>
DefaultBackoff == <<3, 2>>
InfoTries == 3

\* range(max(1, tries))
AttemptsOneMore(t) == Max(1, t) + 1
Attempts(t) == Max(1, t)

\* delay *= backoff
NextDelayAdditive(d, b) == <<d[1] * b[2] + b[1] * d[2], d[2] * b[2]>>
NextDelay(d, b) == <<d[1] * b[1], d[2] * b[2]>>

\* except Exception as e: last = e
KeepFirstError(old, e) == IF old = None THEN Some(e) ELSE old
RecordError(old, e) == Some(e)

\* The call itself: the frame a caller sets up.
GwrCall(u, t, b, script, retTo) ==
    /\ url' = u
    /\ tries' = t
    /\ backoff' = b
    /\ i' = 0
    /\ delay' = InitialDelay
    /\ last' = None
    /\ r' = NoResult
    /\ transport' = script
    /\ retpc' = retTo

\* No call of get_with_retry is in progress.
GwrIdle ==
    /\ tries = 0
    /\ backoff = DefaultBackoff
    /\ i = 0
    /\ delay = InitialDelay
    /\ last = None
    /\ r = NoResult
    /\ transport = <<>>
    /\ url = ""
    /\ retpc = ""

\* One pass of the loop body in which requests.get raises.
GwrRequestFails ==
    /\ pc = "gwr_loop"
    /\ i < Attempts(tries)
    /\ Outcome(i + 1).kind = "error"
    /\ last' = RecordError(last, Outcome(i + 1).err)
    /\ log' = log \o <<GetEvent(url), SleepEvent(delay)>>
    /\ delay' = NextDelay(delay, backoff)
    /\ i' = i + 1
    /\ UNCHANGED <<pc, tries, backoff, r, transport, url, retpc, etVars, mainVars>>

\* One pass of the loop body in which requests.get returns: return r.
GwrRequestReturns ==
    /\ pc = "gwr_loop"
    /\ i < Attempts(tries)
    /\ Outcome(i + 1).kind = "response"
    /\ log' = Append(log, GetEvent(url))
    /\ r' = Outcome(i + 1)
    /\ pc' = retpc
    /\ UNCHANGED <<tries, backoff, i, delay, last, transport, url, retpc, etVars, mainVars>>

\* The loop is exhausted: raise last if last else Exception('request failed').
GwrRaise ==
    /\ pc = "gwr_loop"
    /\ i >= Attempts(tries)
    /\ r' = IF last # None THEN Raised(last[1]) ELSE Raised("request failed")
    /\ pc' = retpc
    /\ UNCHANGED <<log, tries, backoff, i, delay, last, transport, url, retpc, etVars, mainVars>>

GwrNext == GwrRequestFails \/ GwrRequestReturns \/ GwrRaise

-----------------------------------------------------------------------------
(* Strings: str.startswith, str.split(sep, 1)[1], str.isdigit,             *)
(* str.replace on one character, and urllib.parse.unquote.                 *)

Digits == {"0", "1", "2", "3", "4", "5", "6", "7", "8", "9"}

HexVal ==
    [c \in Digits \cup {"A", "B", "C", "D", "E", "F", "a", "b", "c", "d", "e", "f"} |->
        CASE c = "0" -> 0 [] c = "1" -> 1 [] c = "2" -> 2 [] c = "3" -> 3
          [] c = "4" -> 4 [] c = "5" -> 5 [] c = "6" -> 6 [] c = "7" -> 7
          [] c = "8" -> 8 [] c = "9" -> 9
          [] c \in {"A", "a"} -> 10 [] c \in {"B", "b"} -> 11
          [] c \in {"C", "c"} -> 12 [] c \in {"D", "d"} -> 13
          [] c \in {"E", "e"} -> 14 [] c \in {"F", "f"} -> 15]

\* The printable ASCII characters, code 32 first.
Ascii ==
    <<" ", "!", "\"", "#", "$", "%", "&", "'", "(", ")", "*", "+", ",", "-", ".", "/",
      "0", "1", "2", "3", "4", "5", "6", "7", "8", "9", ":", ";", "<", "=", ">", "?",
      "@", "A", "B", "C", "D", "E", "F", "G", "H", "I", "J", "K", "L", "M", "N", "O",
      "P", "Q", "R", "S", "T", "U", "V", "W", "X", "Y", "Z", "[", "\\", "]", "^", "_",
      "<grave>", "a", "b", "c", "d", "e", "f", "g", "h", "i", "j", "k", "l", "m", "n", "o",
      "p", "q", "r", "s", "t", "u", "v", "w", "x", "y", "z", "{", "|", "}", "~">>

\* The character a decoded byte stands for.  A byte outside printable ASCII
\* (a control character, or part of a UTF-8 sequence) is written "<byte>";
\* the hexadecimal digits of the generated targets (2 and 5) produce none.
Chr(n) == IF n - 31 \in 1..Len(Ascii) THEN Ascii[n - 31] ELSE "<byte>"

\* urllib.parse.unquote: one pass, left to right; %XY with two hexadecimal
\* digits becomes the byte it names, any other % stays.
RECURSIVE Unquote(_)
Unquote(s) ==
    IF s = <<>> THEN <<>>
    ELSE IF /\ s[1] = "%"
            /\ Len(s) >= 3
            /\ s[2] \in DOMAIN HexVal
            /\ s[3] \in DOMAIN HexVal
         THEN <<Chr(16 * HexVal[s[2]] + HexVal[s[3]])>> \o Unquote(SubSeq(s, 4, Len(s)))
         ELSE <<s[1]>> \o Unquote(Tail(s))

\* s.startswith(p)
StartsWith(s, p) == Len(s) >= Len(p) /\ SubSeq(s, 1, Len(p)) = p

\* The positions at which sub occurs in s.
Occurrences(s, sub) ==
    {k \in 1..(Len(s) - Len(sub) + 1) : SubSeq(s, k, k + Len(sub) - 1) = sub}

\* s.split(sep, 1)[1], for s containing sep: what follows the first sep.
AfterLast(s, sep) ==
    LET k == CHOOSE x \in Occurrences(s, sep) : \A y \in Occurrences(s, sep) : y <= x
    IN SubSeq(s, k + Len(sep), Len(s))
AfterFirst(s, sep) ==
    LET k == CHOOSE x \in Occurrences(s, sep) : \A y \in Occurrences(s, sep) : x <= y
    IN SubSeq(s, k + Len(sep), Len(s))

\* s.isdigit(): not empty, and digits only.
IsDigit(s) == s # <<>> /\ \A k \in 1..Len(s) : s[k] \in Digits

\* s.replace(a, b) for one-character a and b.
ReplaceChar(s, a, b) == [k \in 1..Len(s) |-> IF s[k] = a THEN b ELSE s[k]]

HttpWiki ==
    <<"h", "t", "t", "p", ":", "/", "/", "i", "m", "s", "l", "p", ".", "o", "r", "g",
      "/", "w", "i", "k", "i", "/">>
HttpsWiki ==
    <<"h", "t", "t", "p", "s", ":", "/", "/", "i", "m", "s", "l", "p", ".", "o", "r", "g",
      "/", "w", "i", "k", "i", "/">>
WikiMarker == <<"/", "w", "i", "k", "i", "/">>

AveMaria ==
    <<"A", "v", "e", "_", "M", "a", "r", "i", "a", "_", "(", "B", "a", "c", "h", "-",
      "G", "o", "u", "n", "o", "d", ")">>

-----------------------------------------------------------------------------
(* The answers extract_title can meet.                                     *)

\* A page entry of a structured response: "missing" is absent, present with
\* the empty string, or present and true; "title" is absent, a string
\* (possibly empty) or a number.
NoTitle == [kind |-> "absent", s |-> <<>>]
StrTitle(s) == [kind |-> "str", s |-> s]
NumTitle == [kind |-> "number", s |-> <<>>]

ApiTitles == {<<>>, <<"S">>, <<"A", "%", "2", "5", "_", "B">>}
EntryTitles == {NoTitle, NumTitle} \cup {StrTitle(s) : s \in ApiTitles}
Entries == [missing : {"absent", "empty", "true"}, title : EntryTitles]

\* What r.json() gives: no JSON at all, JSON that is no object, an object
\* without "query", or an object whose query.pages holds the entries in order.
NotJson == [kind |-> "notjson", pages |-> <<>>]
NotObject == [kind |-> "notobject", pages |-> <<>>]
NoQuery == [kind |-> "noquery", pages |-> <<>>]
PagesBody(es) == [kind |-> "pages", pages |-> es]
Bodies == {NotJson, NotObject, NoQuery} \cup {PagesBody(es) : es \in SeqsUpTo(Entries, MaxPages)}

\* What requests.get gives for the HTML page: a transport error, or a response
\* whose text holds a canonical link with the given slug, or holds none.
Slugs == {<<"A", "_", "B">>, <<"_", "%", "2", "5", "_">>}
HtmlError(e) == [kind |-> "error", err |-> e, status |-> 0, canonical |-> None]
HtmlResponse(st, c) == [kind |-> "response", err |-> "", status |-> st, canonical |-> c]
HtmlOutcomes ==
    {HtmlError(e) : e \in Errors}
        \cup {HtmlResponse(st, c) : st \in {200, 404}, c \in {None} \cup {Some(g) : g \in Slugs}}
NoHtml == [kind |-> "none", err |-> "", status |-> 0, canonical |-> None]

\* The scripts of a transport that matter to one call of at most n requests:
\* errors, ended by a response or by the n-th error.
Scripts(n) ==
    {es \o <<ResponseOutcome(st)>> :
        es \in SeqsUpTo({ErrorOutcome(e) : e \in Errors}, n - 1), st \in Statuses}
        \cup SeqsOfLen({ErrorOutcome(e) : e \in Errors}, n)

-----------------------------------------------------------------------------
(* extract_title(target)                                                   *)

Return(v) == [kind |-> "return", value |-> v]
Pass == [kind |-> "pass", value |-> <<>>]
Raise == [kind |-> "raise", value |-> <<>>]

\* Python truth of page.get('missing') and of page.get('title').
MissingTruthy(e) == e.missing = "true"
TitleTruthy(e) == e.title.kind = "number" \/ (e.title.kind = "str" /\ e.title.s # <<>>)

\* target.startswith('http://imslp.org/wiki/') or the https form
IsPermalink(t) == StartsWith(t, HttpWiki) \/ StartsWith(t, HttpsWiki)

\* target.split('/wiki/', 1)[1], unquoted
PermalinkTitleLastMarker(t) == Unquote(AfterLast(t, WikiMarker))
PermalinkTitle(t) == Unquote(AfterFirst(t, WikiMarker))

\* next(iter(pages.values())) if pages else None
FirstPage(pages) == IF pages # <<>> THEN Some(pages[1]) ELSE None

\* The body of the first try block once get_with_retry is back: what it
\* returns, or that it falls out of the if chain, or that it raises.
ApiLookup(resp, body) ==
    IF resp.kind = "raised" THEN Raise
    ELSE IF ~Ok(resp) THEN Pass
    ELSE IF body.kind \in {"notjson", "notobject"} THEN Raise
    ELSE LET pg == FirstPage(body.pages)
         IN IF pg # None /\ ~MissingTruthy(pg[1]) /\ TitleTruthy(pg[1])
            THEN IF pg[1].title.kind = "str"
                 THEN Return(Unquote(pg[1].title.s))
                 ELSE Raise
            ELSE Pass

\* try: ... except Exception: pass
TryApiLookup(resp, body) ==
    IF ApiLookup(resp, body).kind = "raise" THEN Pass ELSE ApiLookup(resp, body)

\* The body of the second try block, given what requests.get did.
HtmlLookupKeepUnderscores(o) ==
    IF o.kind = "error" THEN Raise
    ELSE IF Ok(o) /\ o.canonical # None
         THEN Return(Unquote(o.canonical[1]))
         ELSE Pass
HtmlLookup(o) ==
    IF o.kind = "error" THEN Raise
    ELSE IF Ok(o) /\ o.canonical # None
         THEN Return(ReplaceChar(Unquote(o.canonical[1]), "_", " "))
         ELSE Pass

HtmlLookupUncaught(o) == HtmlLookup(o)
TryHtmlLookup(o) ==
    IF HtmlLookup(o).kind = "raise" THEN Pass ELSE HtmlLookup(o)

\* return urllib.parse.unquote(target)
RawTitle(t) == Unquote(t)

EtIdle ==
    /\ target = <<>>
    /\ data = None
    /\ r2 = NoHtml
    /\ ret = None

\* A permalink: returned at once.
ExtractPermalink ==
    /\ pc = "extract_title"
    /\ IsPermalink(target)
    /\ ret' = Some(Return(PermalinkTitle(target)))
    /\ pc' = "et_done"
    /\ UNCHANGED <<log, gwrVars, target, data, r2, mainVars>>

\* Neither a permalink nor all digits: the last line.
ExtractRaw ==
    /\ pc = "extract_title"
    /\ ~IsPermalink(target)
    /\ ~IsDigit(target)
    /\ ret' = Some(Return(RawTitle(target)))
    /\ pc' = "et_done"
    /\ UNCHANGED <<log, gwrVars, target, data, r2, mainVars>>

\* All digits: r = get_with_retry(api.php, prop=info, tries=3).
ExtractCallApi ==
    /\ pc = "extract_title"
    /\ ~IsPermalink(target)
    /\ IsDigit(target)
    /\ \E script \in Scripts(InfoTries) :
          GwrCall("api.php?prop=info", InfoTries, DefaultBackoff, script, "et_api_ret")
    /\ pc' = "gwr_loop"
    /\ UNCHANGED <<log, etVars, mainVars>>

\* get_with_retry is back: the rest of the first try block.  A returned
\* title ends the call; anything else goes on to the HTML page.
ExtractApiReturned ==
    /\ pc = "et_api_ret"
    /\ \E body \in Bodies :
          /\ data' = IF r.kind = "response" /\ Ok(r) THEN Some(body) ELSE None
          /\ LET res == TryApiLookup(r, body)
             IN /\ ret' = IF res.kind = "pass" THEN None ELSE Some(res)
                /\ pc' = IF res.kind = "pass" THEN "et_html" ELSE "et_done"
    /\ UNCHANGED <<log, gwrVars, target, r2, mainVars>>

\* The second try block and the last line: one request for the HTML page,
\* never retried; without a canonical link the unquoted target is returned.
ExtractHtml ==
    /\ pc = "et_html"
    /\ \E o \in HtmlOutcomes :
          /\ r2' = o
          /\ LET res == TryHtmlLookup(o)
             IN ret' = IF res.kind = "pass" THEN Some(Return(RawTitle(target)))
                       ELSE Some(res)
    /\ log' = Append(log, GetEvent("index.php?curid"))
    /\ pc' = "et_done"
    /\ UNCHANGED <<gwrVars, target, data, mainVars>>

EtNext ==
    \/ ExtractPermalink
    \/ ExtractRaw
    \/ ExtractCallApi
    \/ ExtractApiReturned
    \/ ExtractHtml

-----------------------------------------------------------------------------
(* The wiki client's objects.  A page object answers, or raises on, each   *)
(* of the operations main performs on it.                                  *)

UrlHttp == <<"h", "t", "t", "p", ":", "/", "/", "i", "m", "s", "l", "p", ".", "o", "r", "g", "/", "x", ".", "p", "d", "f">>
UrlRelative == <<"/", "/", "i", "m", "s", "l", "p", ".", "o", "r", "g", "/", "x", ".", "p", "d", "f">>
UrlRemote == <<"h", "t", "t", "p", ":", "/", "/", "i", "m", "s", "l", "p", ".", "o", "r", "g", "/", "y", ".", "p", "d", "f">>

\* s.replace(old, new), every occurrence, left to right.
RECURSIVE Replace(_, _, _)
Replace(s, old, new) ==
    IF s = <<>> THEN <<>>
    ELSE IF StartsWith(s, old)
         THEN new \o Replace(SubSeq(s, Len(old) + 1, Len(s)), old, new)
         ELSE <<s[1]>> \o Replace(Tail(s), old, new)

\* An image's imageinfo dictionary; every key may be absent (None).
Info(u, sz, sh, rest) ==
    [url |-> u, size |-> sz, sha1 |-> sh, mime |-> rest, timestamp |-> rest, user |-> rest]

SeedInfos ==
    {Info(u, sz, sh, rest) :
        u \in {None, Some(UrlHttp), Some(UrlRelative)},
        sz \in {None, Some(5)},
        sh \in {None, Some("aa")},
        rest \in {None, Some("seed")}}

\* What the batched query tells about a file; sha1 and the like may be empty.
RemoteInfos ==
    {Info(u, sz, sh, rest) :
        u \in {None, Some(UrlRemote)},
        sz \in {None, Some(0)},
        sh \in {None, Some(""), Some("bb")},
        rest \in {None, Some("remote")}}

\* An entry of page.images(): its attributes name and page_title may be
\* missing, its imageinfo may be something that is no dictionary (dict
\* FALSE), and reading an attribute may raise.
Img(n, t, isDict, inf, rs) ==
    [name |-> n, page_title |-> t, dict |-> isDict, imageinfo |-> inf, raises |-> rs]

NoInfo == Info(None, None, None, None)
FullSeedInfo == Info(Some(UrlHttp), Some(5), Some("aa"), Some("seed"))

\* An entry of page.revisions(): a dictionary, or something whose get raises.
Rev(isDict, id) ==
    [dict |-> isDict, revid |-> Some(id), user |-> Some("u"), timestamp |-> Some("t"),
     comment |-> None]

Answer(v) == [kind |-> "ok", msg |-> "", value |-> v]
Failure(m) == [kind |-> "raise", msg |-> m, value |-> <<>>]

Attrs(id) == [page_id |-> id, namespace |-> Some(0), revision |-> Some(9)]

-----------------------------------------------------------------------------
(* main: the file section's pure parts.                                    *)

SeedCap == 100
ChunkSize == 50
InfoChunkTries == 3
PollLimit == 3
RevCap == 5

TruthySeq(o) == o # None /\ o[1] # <<>>
TruthyStr(o) == o # None /\ o[1] # ""

\* a or b
OrSeq(a, b) == IF TruthySeq(a) THEN a ELSE b
OrStr(a, b) == IF TruthyStr(a) THEN a ELSE b

Http == <<"h", "t", "t", "p", ":">>
Https == <<"h", "t", "t", "p", "s", ":">>
HostRelative == <<"/", "/", "i", "m", "s", "l", "p", ".", "o", "r", "g", "/">>
HostSecure ==
    <<"h", "t", "t", "p", "s", ":", "/", "/", "i", "m", "s", "l", "p", ".", "o", "r", "g",
      "/">>

\* url.replace('http:', 'https:') if url else None
HttpsOf(u) == IF TruthySeq(u) THEN Some(Replace(u[1], Http, Https)) ELSE None

\* url.replace('//imslp.org/', 'https://imslp.org/') if url and url.startswith('//') else url
DirectOf(u) ==
    IF TruthySeq(u) /\ StartsWith(u[1], <<"/", "/">>)
    THEN Some(Replace(u[1], HostRelative, HostSecure))
    ELSE u

\* use_title = name or title
UseTitleOf(img) == OrStr(img.name, img.page_title)

\* info.get(key) if isinstance(info, dict) else None
InfoGet(img, key) == IF img.dict THEN img.imageinfo[key] ELSE None

\* The record the seed loop appends for one image.
SeedRecord(img) ==
    [name |-> img.name,
     title |-> UseTitleOf(img),
     url |-> InfoGet(img, "url"),
     size |-> InfoGet(img, "size"),
     sha1 |-> InfoGet(img, "sha1"),
     mime_type |-> InfoGet(img, "mime"),
     timestamp |-> InfoGet(img, "timestamp"),
     user |-> InfoGet(img, "user"),
     download_urls |->
        [original |-> InfoGet(img, "url"),
         https |-> HttpsOf(InfoGet(img, "url")),
         direct |-> DirectOf(InfoGet(img, "url"))]]

\* list(page.images())[:100]
Capped(list) == SubSeq(list, 1, Min(Len(list), SeedCap))

\* temp_files after the seed loop over imgs.
SeedRecords(imgs) == [k \in 1..Len(imgs) |-> SeedRecord(imgs[k])]

\* titles after the seed loop over imgs.
RECURSIVE SeedTitles(_)
SeedTitles(imgs) ==
    IF imgs = <<>> THEN <<>>
    ELSE (IF TruthyStr(UseTitleOf(imgs[1])) THEN <<UseTitleOf(imgs[1])[1]>> ELSE <<>>)
            \o SeedTitles(Tail(imgs))

\* titles[i:i+50], i counted from 0
ChunkFromStart(ts, from) == SubSeq(ts, 1, Min(Len(ts), ChunkSize))
Chunk(ts, from) == SubSeq(ts, from + 1, Min(Len(ts), from + ChunkSize))

\* by_title after the entries of one parsed body: an entry without title or
\* with an empty imageinfo list is passed over, any other sets its title's
\* info to the first element of the list.
Absorb(byT, pages) ==
    LET got == {t \in DOMAIN pages : pages[t] # <<>>}
    IN [t \in (DOMAIN byT) \cup got |-> IF t \in got THEN pages[t][1] ELSE byT[t]]

\* The merge loop's body for one record; info = by_title.get(ti) is falsy when
\* the title is no key and when the info is a dictionary without keys.
MergeRecordStale(f, byT) ==
    IF f.title = None \/ f.title[1] \notin DOMAIN byT \/ byT[f.title[1]] = NoInfo THEN f
    ELSE LET info == byT[f.title[1]]
         IN [f EXCEPT
                !.url = OrSeq(info.url, f.url),
                !.size = IF info.size # None THEN info.size ELSE f.size,
                !.sha1 = OrStr(info.sha1, f.sha1),
                !.mime_type = OrStr(info.mime, f.mime_type),
                !.timestamp = OrStr(info.timestamp, f.timestamp),
                !.user = OrStr(info.user, f.user),
                !.download_urls =
                    [original |-> f.url,
                     https |-> HttpsOf(info.url),
                     direct |-> info.url]]
MergeRecord(f, byT) ==
    IF f.title = None \/ f.title[1] \notin DOMAIN byT \/ byT[f.title[1]] = NoInfo THEN f
    ELSE LET info == byT[f.title[1]]
         IN [f EXCEPT
                !.url = OrSeq(info.url, f.url),
                !.size = IF info.size # None THEN info.size ELSE f.size,
                !.sha1 = OrStr(info.sha1, f.sha1),
                !.mime_type = OrStr(info.mime, f.mime_type),
                !.timestamp = OrStr(info.timestamp, f.timestamp),
                !.user = OrStr(info.user, f.user),
                !.download_urls =
                    [original |-> info.url,
                     https |-> HttpsOf(info.url),
                     direct |-> info.url]]

\* The merge loop.
MergeAll(fs, byT) == [k \in 1..Len(fs) |-> MergeRecord(fs[k], byT)]

-----------------------------------------------------------------------------
(* main: the document and its sections.                                    *)

WikiUrl ==
    <<"h", "t", "t", "p", "s", ":", "/", "/", "i", "m", "s", "l", "p", ".", "o", "r", "g",
      "/", "w", "i", "k", "i", "/">>

HexUpper == <<"0", "1", "2", "3", "4", "5", "6", "7", "8", "9", "A", "B", "C", "D", "E", "F">>

\* Characters urllib.parse.quote leaves alone (safe='/').
Unreserved ==
    Digits \cup {"_", ".", "-", "~", "/"}
        \cup {Ascii[k] : k \in 34..59} \cup {Ascii[k] : k \in 66..91}

Ord(c) == IF \E k \in 1..Len(Ascii) : Ascii[k] = c
          THEN 31 + CHOOSE k \in 1..Len(Ascii) : Ascii[k] = c
          ELSE 63

\* urllib.parse.quote
RECURSIVE Quote(_)
Quote(s) ==
    IF s = <<>> THEN <<>>
    ELSE (IF s[1] \in Unreserved THEN <<s[1]>>
          ELSE <<"%", HexUpper[(Ord(s[1]) \div 16) + 1], HexUpper[(Ord(s[1]) % 16) + 1]>>)
            \o Quote(Tail(s))

\* metadata = {...}: every section at its default (an empty dictionary is
\* None here), no error key.  The timestamp, read from the clock, is left out.
NewMetadata(t, pg) ==
    [page_title |-> t,
     url |-> WikiUrl \o Quote(t),
     exists |-> pg.exists,
     basic_info |-> None,
     categories |-> <<>>,
     files |-> <<>>,
     revision_history |-> <<>>,
     basic_info_error |-> None,
     categories_error |-> None,
     files_error |-> None,
     revision_history_error |-> None]

\* The first try block of the sections.
BasicInfoSection(md, pg) ==
    IF pg.attrs.kind = "ok"
    THEN [md EXCEPT !.basic_info =
            Some([page_name |-> pg.name,
                  page_title |-> pg.name,
                  page_id |-> pg.attrs.value.page_id,
                  namespace |-> pg.attrs.value.namespace,
                  last_revision |-> pg.attrs.value.revision])]
    ELSE [md EXCEPT !.basic_info_error = Some(pg.attrs.msg)]

\* The second try block.
CategoriesSectionStartingOver(md, pg) ==
    IF pg.cats.kind = "ok"
    THEN [md EXCEPT !.categories = pg.cats.value]
    ELSE [NewMetadata(md.page_title, pg) EXCEPT !.categories_error = Some(pg.cats.msg)]
CategoriesSection(md, pg) ==
    IF pg.cats.kind = "ok"
    THEN [md EXCEPT !.categories = pg.cats.value]
    ELSE [md EXCEPT !.categories_error = Some(pg.cats.msg)]

\* imgs = list(page.images())[:100], or [] when that raises.
ListedImages(pg) == IF pg.imgs.kind = "ok" THEN Capped(pg.imgs.value) ELSE <<>>

\* The first image of the list whose attributes raise; 0 when none does.
FirstRaising(imgs) ==
    IF \E k \in 1..Len(imgs) : imgs[k].raises
    THEN CHOOSE k \in 1..Len(imgs) : imgs[k].raises /\ \A j \in 1..(k - 1) : ~imgs[j].raises
    ELSE 0

\* The entry appended for one revision.
RevisionRecord(rev) ==
    [revid |-> rev.revid, user |-> rev.user, timestamp |-> rev.timestamp,
     comment |-> rev.comment]

\* The first of the revisions that is no dictionary; 0 when all are.
FirstBadRev(revs) ==
    IF \E k \in 1..Len(revs) : ~revs[k].dict
    THEN CHOOSE k \in 1..Len(revs) : ~revs[k].dict /\ \A j \in 1..(k - 1) : revs[j].dict
    ELSE 0

\* The last try block: entries are appended one by one, so those before a
\* failing revision stay.
RevisionsSection(md, pg) ==
    IF pg.revs.kind # "ok"
    THEN [md EXCEPT !.revision_history_error = Some(pg.revs.msg)]
    ELSE LET revs == SubSeq(pg.revs.value, 1, Min(Len(pg.revs.value), RevCap))
             bad == FirstBadRev(revs)
             good == IF bad = 0 THEN revs ELSE SubSeq(revs, 1, bad - 1)
         IN [md EXCEPT
                !.revision_history = [k \in 1..Len(good) |-> RevisionRecord(good[k])],
                !.revision_history_error =
                    IF bad = 0 THEN None ELSE Some("rev.get failed")]

\* What r.json() gives for a batched imageinfo query: no JSON, or the
\* wiki's table for the titles asked.
NoJsonInfo == [kind |-> "notjson", pages |-> <<>>]
InfoPages(chunk) ==
    [kind |-> "pages",
     pages |-> [t \in {chunk[k] : k \in 1..Len(chunk)} \cap DOMAIN remote |-> remote[t]]]

MainIdle ==
    /\ argv = <<>>
    /\ title = None
    /\ page = <<>>
    /\ attempts = 0
    /\ metadata = <<>>
    /\ temp_files = <<>>
    /\ titles = <<>>
    /\ by_title = <<>>
    /\ ci = 0
    /\ stdout = <<>>
    /\ exit = None
    /\ remote = <<>>

LookupEvent == [ev |-> "lookup", url |-> "", delay |-> <<0, 1>>]

\* A batched query: get_with_retry called for the titles of one chunk.
QueryEvent(chunk) ==
    [ev |-> "query", url |-> "api.php?prop=imageinfo", delay |-> <<0, 1>>, titles |-> chunk]
PollDelay == <<2, 1>>

\* The pages a lookup of title t may give.
GoodImg == Img(Some("File:A.pdf"), Some("A.pdf"), TRUE, FullSeedInfo, FALSE)
FullRemoteInfo == Info(Some(UrlRemote), Some(0), Some("bb"), Some("remote"))

\* The k-th image of a listing: named after its position, or, at every
\* gap-th position, without name and title.
ListedImg(k, gap) ==
    Img(IF gap # 0 /\ k % gap = 0 THEN None ELSE Some(ToString(k)), None, TRUE,
        FullSeedInfo, FALSE)

Listing(n, gap) == [k \in 1..n |-> ListedImg(k, gap)]

\* The wiki knows every file of the listings.
KnownFiles == [t \in {ToString(k) : k \in 1..MaxListed} |-> <<FullRemoteInfo>>]

\* The pages of a wiki that holds the files of the long listings list one
\* file more than a chunk holds; the pages of a small wiki list one file or none, and any of their
\* operations may raise.
LookupPages(t) ==
    IF remote = KnownFiles
    THEN {[name |-> t, exists |-> ex, attrs |-> Answer(Attrs(Some(7))),
           cats |-> Answer(<<"Scores">>), imgs |-> Answer(Listing(ChunkSize + 1, 0)),
           revs |-> Answer(<<Rev(TRUE, 1)>>)] :
            ex \in BOOLEAN}
    ELSE {[name |-> t, exists |-> ex, attrs |-> at, cats |-> cs, imgs |-> im, revs |-> rv] :
            ex \in BOOLEAN,
            at \in {Failure("attrs failed"), Answer(Attrs(Some(7)))},
            cs \in {Failure("categories failed"), Answer(<<"Scores">>)},
            im \in {Failure("images failed"), Answer(<<>>), Answer(<<GoodImg>>)},
            rv \in {Failure("revisions failed"), Answer(<<Rev(TRUE, 1)>>)}}

\* from imslp.client import ImslpClient raises: sys.exit(2)
ImportFails ==
    /\ pc = "import"
    /\ exit' = Some(2)
    /\ pc' = "exited"
    /\ UNCHANGED <<log, gwrVars, etVars, argv, title, page, attempts, metadata, fileVars,
                   stdout, remote>>

ImportOk ==
    /\ pc = "import"
    /\ pc' = "main"
    /\ UNCHANGED <<log, gwrVars, etVars, mainVars>>

\* len(sys.argv) < 2: usage, sys.exit(1)
MainUsage ==
    /\ pc = "main"
    /\ Len(argv) < 2
    /\ exit' = Some(1)
    /\ pc' = "exited"
    /\ UNCHANGED <<log, gwrVars, etVars, argv, title, page, attempts, metadata, fileVars,
                   stdout, remote>>

\* target = sys.argv[1]; extract_title(target) is entered
MainStart ==
    /\ pc = "main"
    /\ Len(argv) >= 2
    /\ target' = argv[2]
    /\ pc' = "extract_title"
    /\ UNCHANGED <<log, gwrVars, data, r2, ret, mainVars>>

\* extract_title's frame, and that of its get_with_retry, are gone.
FramesGone ==
    /\ tries' = 0
    /\ backoff' = DefaultBackoff
    /\ i' = 0
    /\ delay' = InitialDelay
    /\ last' = None
    /\ r' = NoResult
    /\ transport' = <<>>
    /\ url' = ""
    /\ retpc' = ""
    /\ data' = None
    /\ r2' = NoHtml
    /\ ret' = None

\* title = extract_title(target); client = ImslpClient() raises: nothing
\* catches it, the interpreter prints the traceback and exits with 1.
UncaughtExit == Some(1)
MainClientFails ==
    /\ pc = "et_done"
    /\ ret # None
    /\ ret[1].kind = "return"
    /\ title' = Some(ret[1].value)
    /\ FramesGone
    /\ exit' = UncaughtExit
    /\ pc' = "exited"
    /\ UNCHANGED <<log, target, argv, page, attempts, metadata, fileVars, stdout, remote>>

\* title = extract_title(target); client = ImslpClient()
MainClientOk ==
    /\ pc = "et_done"
    /\ ret # None
    /\ ret[1].kind = "return"
    /\ title' = Some(ret[1].value)
    /\ FramesGone
    /\ pc' = "lookup"
    /\ UNCHANGED <<log, target, argv, page, attempts, metadata, fileVars, stdout, exit,
                   remote>>

\* page = client._site.pages[title]; attempts = 0
MainLookup ==
    /\ pc = "lookup"
    /\ \E p \in LookupPages(title[1]) : page' = p
    /\ attempts' = 0
    /\ log' = Append(log, LookupEvent)
    /\ pc' = "poll"
    /\ UNCHANGED <<gwrVars, etVars, argv, title, metadata, fileVars, stdout, exit, remote>>

\* The lookup raises: nothing catches it.
MainLookupRaises ==
    /\ pc = "lookup"
    /\ log' = Append(log, LookupEvent)
    /\ exit' = UncaughtExit
    /\ pc' = "exited"
    /\ UNCHANGED <<gwrVars, etVars, argv, title, page, attempts, metadata, fileVars, stdout,
                   remote>>

\* while attempts < 3 and not page.exists
PollAgainInclusive == attempts <= PollLimit /\ ~page.exists
PollAgain == attempts < PollLimit /\ ~page.exists

\* The loop body: sleep, fetch again, count.
MainPollAgain ==
    /\ pc = "poll"
    /\ PollAgain
    /\ log' = log \o <<SleepEvent(PollDelay), LookupEvent>>
    /\ \E p \in LookupPages(title[1]) : page' = p
    /\ attempts' = attempts + 1
    /\ UNCHANGED <<pc, gwrVars, etVars, argv, title, metadata, fileVars, stdout, exit,
                   remote>>

\* The loop body when the fetch raises: nothing catches it.
MainPollRaises ==
    /\ pc = "poll"
    /\ PollAgain
    /\ log' = log \o <<SleepEvent(PollDelay), LookupEvent>>
    /\ exit' = UncaughtExit
    /\ pc' = "exited"
    /\ UNCHANGED <<gwrVars, etVars, argv, title, page, attempts, metadata, fileVars, stdout,
                   remote>>

\* The loop ends; metadata = {...}
MainPollDone ==
    /\ pc = "poll"
    /\ ~PollAgain
    /\ metadata' = NewMetadata(title[1], page)
    /\ pc' = "basic_info"
    /\ UNCHANGED <<log, gwrVars, etVars, argv, title, page, attempts, fileVars, stdout, exit,
                   remote>>

MainBasicInfo ==
    /\ pc = "basic_info"
    /\ metadata' = BasicInfoSection(metadata, page)
    /\ pc' = "categories"
    /\ UNCHANGED <<log, gwrVars, etVars, argv, title, page, attempts, fileVars, stdout, exit,
                   remote>>

MainCategories ==
    /\ pc = "categories"
    /\ metadata' = CategoriesSection(metadata, page)
    /\ pc' = "files"
    /\ UNCHANGED <<log, gwrVars, etVars, argv, title, page, attempts, fileVars, stdout, exit,
                   remote>>

\* The seed loop.  An image whose attributes raise ends the file section
\* with files_error; without titles the seed records are the files.
MainSeedFiles ==
    /\ pc = "files"
    /\ LET imgs == ListedImages(page)
           bad == FirstRaising(imgs)
           seen == IF bad = 0 THEN imgs ELSE SubSeq(imgs, 1, bad - 1)
       IN /\ temp_files' = SeedRecords(seen)
          /\ titles' = SeedTitles(seen)
          /\ IF bad # 0
             THEN /\ metadata' = [metadata EXCEPT !.files_error = Some("image attribute failed")]
                  /\ pc' = "revisions"
             ELSE IF SeedTitles(seen) = <<>>
                  THEN /\ metadata' = [metadata EXCEPT !.files = SeedRecords(seen)]
                       /\ pc' = "revisions"
                  ELSE /\ metadata' = metadata
                       /\ pc' = "chunks"
    /\ by_title' = <<>>
    /\ ci' = 0
    /\ UNCHANGED <<log, gwrVars, etVars, argv, title, page, attempts, stdout, exit, remote>>

\* for i in range(0, min(len(titles), 100), 50): the next chunk is asked for
ChunkLimit == Min(Len(titles), SeedCap)
MainChunkCall ==
    /\ pc = "chunks"
    /\ ci < ChunkLimit
    /\ \E script \in Scripts(InfoChunkTries) :
          GwrCall("api.php?prop=imageinfo", InfoChunkTries, DefaultBackoff, script, "chunk_ret")
    /\ log' = Append(log, QueryEvent(Chunk(titles, ci)))
    /\ pc' = "gwr_loop"
    /\ UNCHANGED <<etVars, mainVars>>

\* get_with_retry is back.  A raise, from it or from r.json(), leaves the
\* inner try block: the files are the seed records.  A response that is not
\* OK is passed over.
ChunkOutcomeStrict(resp, body) ==
    IF resp.kind = "raised" THEN "raise"
    ELSE IF ~Ok(resp) THEN "raise"
    ELSE IF body.kind = "notjson" THEN "raise"
    ELSE "absorb"
ChunkOutcomeLenient(resp, body) ==
    IF resp.kind = "raised" THEN "skip"
    ELSE IF ~Ok(resp) THEN "skip"
    ELSE IF body.kind = "notjson" THEN "raise"
    ELSE "absorb"
ChunkOutcome(resp, body) ==
    IF resp.kind = "raised" THEN "raise"
    ELSE IF ~Ok(resp) THEN "skip"
    ELSE IF body.kind = "notjson" THEN "raise"
    ELSE "absorb"

MainChunkReturned ==
    /\ pc = "chunk_ret"
    /\ \E body \in {NoJsonInfo, InfoPages(Chunk(titles, ci))} :
          LET what == ChunkOutcome(r, body)
          IN /\ by_title' = IF what = "absorb" THEN Absorb(by_title, body.pages) ELSE by_title
             /\ ci' = IF what = "raise" THEN ci ELSE ci + ChunkSize
             /\ metadata' = IF what = "raise" THEN [metadata EXCEPT !.files = temp_files]
                            ELSE metadata
             /\ pc' = IF what = "raise" THEN "revisions" ELSE "chunks"
    /\ tries' = 0
    /\ backoff' = DefaultBackoff
    /\ i' = 0
    /\ delay' = InitialDelay
    /\ last' = None
    /\ r' = NoResult
    /\ transport' = <<>>
    /\ url' = ""
    /\ retpc' = ""
    /\ UNCHANGED <<log, etVars, argv, title, page, attempts, temp_files, titles, stdout,
                   exit, remote>>

\* The chunks are done: the merge loop, then metadata['files'] = temp_files
MainMerge ==
    /\ pc = "chunks"
    /\ ci >= ChunkLimit
    /\ temp_files' = MergeAll(temp_files, by_title)
    /\ metadata' = [metadata EXCEPT !.files = MergeAll(temp_files, by_title)]
    /\ pc' = "revisions"
    /\ UNCHANGED <<log, gwrVars, etVars, argv, title, page, attempts, titles, by_title, ci,
                   stdout, exit, remote>>

MainRevisions ==
    /\ pc = "revisions"
    /\ metadata' = RevisionsSection(metadata, page)
    /\ pc' = "print"
    /\ UNCHANGED <<log, gwrVars, etVars, argv, title, page, attempts, fileVars, stdout, exit,
                   remote>>

\* print(json.dumps(metadata)); the interpreter exits with 0
MainPrint ==
    /\ pc = "print"
    /\ stdout' = Append(stdout, metadata)
    /\ exit' = Some(0)
    /\ pc' = "exited"
    /\ UNCHANGED <<log, gwrVars, etVars, argv, title, page, attempts, metadata, fileVars,
                   remote>>

SectionsNext ==
    \/ MainBasicInfo
    \/ MainCategories
    \/ MainSeedFiles
    \/ MainChunkCall
    \/ MainChunkReturned
    \/ MainMerge
    \/ MainRevisions
    \/ MainPrint

MainNext ==
    \/ ImportFails
    \/ ImportOk
    \/ MainUsage
    \/ MainStart
    \/ MainClientFails
    \/ MainClientOk
    \/ MainLookup
    \/ MainLookupRaises
    \/ MainPollAgain
    \/ MainPollRaises
    \/ MainPollDone

Next == MainNext \/ EtNext \/ GwrNext \/ SectionsNext

-----------------------------------------------------------------------------
(* extract_title called on its own, with every generated target.           *)

Segments == {<<"a">>, <<"_">>, <<"%">>, <<"2">>, <<"5">>, WikiMarker}

RECURSIVE Concat(_)
Concat(ss) == IF ss = <<>> THEN <<>> ELSE ss[1] \o Concat(Tail(ss))

Paths == {Concat(ss) : ss \in SeqsUpTo(Segments, MaxSegs)}

Targets ==
    Paths \cup {HttpWiki \o p : p \in Paths} \cup {HttpsWiki \o p : p \in Paths}
        \cup {HttpsWiki \o AveMaria}

InitResolve ==
    /\ pc = "extract_title"
    /\ log = <<>>
    /\ GwrIdle
    /\ target \in Targets
    /\ data = None
    /\ r2 = NoHtml
    /\ ret = None
    /\ MainIdle

SpecResolve == InitResolve /\ [][EtNext \/ GwrNext]_vars

\* The requests and the sleeps of the log.
Gets == SelectSeq(log, LAMBDA e : e.ev = "get")
Sleeps == SelectSeq(log, LAMBDA e : e.ev = "sleep")
HtmlGets == SelectSeq(log, LAMBDA e : e.ev = "get" /\ e.url = "index.php?curid")
InfoGets == SelectSeq(log, LAMBDA e : e.ev = "get" /\ e.url = "api.php?prop=info")

\* What follows the scheme, host and /wiki/ of a permalink.
PermalinkPath(t) ==
    IF StartsWith(t, HttpWiki) THEN SubSeq(t, Len(HttpWiki) + 1, Len(t))
    ELSE SubSeq(t, Len(HttpsWiki) + 1, Len(t))

\* C4: for a permalink extract_title returns the unquoted text after the
\* first /wiki/, which is the text after scheme and host, and no request is
\* ever issued.
C4_PermalinkNoNetwork ==
    IsPermalink(target) =>
        /\ log = <<>>
        /\ pc \in {"extract_title", "et_done"}
        /\ pc = "et_done" => ret = Some(Return(Unquote(PermalinkPath(target))))

C4_Witness ==
    /\ pc = "et_done"
    /\ target = HttpWiki \o <<"_">> \o WikiMarker \o <<"a">>
    /\ ret = Some(Return(<<"_">> \o WikiMarker \o <<"a">>))
    /\ log = <<>>

\* The structured lookup succeeded as the code sees it: an OK response whose
\* body is an object with page entries, the first of which carries no true
\* "missing" and a non-empty string title.
FirstEntryUsable ==
    /\ r.kind = "response"
    /\ Ok(r)
    /\ data # None
    /\ data[1].kind = "pages"
    /\ Len(data[1].pages) >= 1
    /\ data[1].pages[1].missing # "true"
    /\ data[1].pages[1].title.kind = "str"
    /\ data[1].pages[1].title.s # <<>>

\* The structured lookup succeeded as the specification words it: an OK,
\* well-formed response with exactly one entry, not marked missing, with a
\* non-empty title.
SingleEntryUsable ==
    /\ r.kind = "response"
    /\ Ok(r)
    /\ data # None
    /\ data[1].kind = "pages"
    /\ Len(data[1].pages) = 1
    /\ data[1].pages[1].missing = "absent"
    /\ data[1].pages[1].title.kind = "str"
    /\ data[1].pages[1].title.s # <<>>

\* The HTML page was asked for once, after every structured request.
HtmlAskedOnceLast ==
    /\ Len(HtmlGets) = 1
    /\ log # <<>>
    /\ log[Len(log)].ev = "get"
    /\ log[Len(log)].url = "index.php?curid"

\* C6 as stated: the structured title is returned only for a single, not
\* missing, titled entry of an OK well-formed response, without any HTML
\* request; in every other case the HTML page is requested, and a canonical
\* link found there gives the result, unquoted, underscores as spaces.
C6_AsStated ==
    (pc = "et_done" /\ IsDigit(target)) =>
        /\ SingleEntryUsable =>
              /\ ret = Some(Return(Unquote(data[1].pages[1].title.s)))
              /\ HtmlGets = <<>>
        /\ ~SingleEntryUsable =>
              /\ HtmlAskedOnceLast
              /\ r2.canonical # None =>
                    ret = Some(Return(ReplaceChar(Unquote(r2.canonical[1]), "_", " ")))

\* C6 as amended: the structured title (unquoted) is returned exactly when the
\* response is OK and well-formed and its FIRST entry has no true "missing"
\* and a non-empty string title, and then the HTML page is never requested;
\* in every other case the HTML page is requested once, after the structured
\* requests, and when its response is OK and holds a canonical link the result
\* is that link's slug, unquoted, underscores as spaces.
C6_OrderedFallback ==
    (pc = "et_done" /\ IsDigit(target)) =>
        /\ FirstEntryUsable =>
              /\ ret = Some(Return(Unquote(data[1].pages[1].title.s)))
              /\ HtmlGets = <<>>
              /\ r2 = NoHtml
        /\ ~FirstEntryUsable =>
              /\ HtmlAskedOnceLast
              /\ (Ok(r2) /\ r2.canonical # None) =>
                    ret = Some(Return(ReplaceChar(Unquote(r2.canonical[1]), "_", " ")))

C6_Witness ==
    /\ pc = "et_done"
    /\ IsDigit(target)
    /\ r.kind = "raised"
    /\ Len(InfoGets) = 3
    /\ HtmlAskedOnceLast
    /\ r2 = HtmlResponse(200, Some(<<"_", "%", "2", "5", "_">>))
    /\ ret = Some(Return(<<" ", "%", " ">>))

\* Both identifier strategies failed.
HtmlFailed == r2.kind = "error" \/ ~Ok(r2) \/ r2.canonical = None

\* C7: extract_title never raises: whatever the network does it returns a
\* string, and for an input that is no permalink the result is the unquoted
\* input when the input is not all digits or both identifier strategies fail.
C7_NeverRaises ==
    pc = "et_done" =>
        /\ ret # None
        /\ ret[1].kind = "return"
        /\ (~IsPermalink(target) /\ (~IsDigit(target) \/ (~FirstEntryUsable /\ HtmlFailed))) =>
              ret[1].value = Unquote(target)

C7_Witness ==
    /\ pc = "et_done"
    /\ target = <<"2", "5">>
    /\ r.kind = "raised"
    /\ r2.kind = "error"
    /\ ret = Some(Return(<<"2", "5">>))

-----------------------------------------------------------------------------
(* get_with_retry called on its own, with every tries, several backoff     *)
(* multipliers and every behaviour of the transport.                       *)

Backoffs == {<<3, 2>>, <<2, 1>>, <<1, 2>>}
TriesRange == (0 - 1)..MaxTries

InitRetry ==
    /\ pc = "gwr_loop"
    /\ log = <<>>
    /\ tries \in TriesRange
    /\ backoff \in Backoffs
    /\ i = 0
    /\ delay = InitialDelay
    /\ last = None
    /\ r = NoResult
    /\ transport \in SeqsOfLen(Outcomes, Max(1, tries))
    /\ url = "api.php"
    /\ retpc = "gwr_done"
    /\ EtIdle
    /\ MainIdle

SpecRetry == InitRetry /\ [][GwrNext]_vars

\* Fractions a and b are the same number.
SameFraction(a, b) == a[1] * b[2] = b[1] * a[2]

\* The transport fails on the first n requests and answers the next one.
FailsThenSucceeds(n) ==
    /\ Len(transport) >= n + 1
    /\ \A k \in 1..n : transport[k].kind = "error"
    /\ transport[n + 1].kind = "response"

\* The transport fails on every request the call can make.
AlwaysFails == \A k \in 1..Len(transport) : transport[k].kind = "error"

\* C8: with tries = N+1 and a transport that fails N times and then answers,
\* the call returns that answer after exactly N+1 requests and N sleeps; the
\* log alternates request, sleep, ..., request, and the k-th sleep (from 0)
\* lasts InitialDelay * backoff^k.
C8_RetryBackoff ==
    (pc = "gwr_done" /\ tries >= 1 /\ FailsThenSucceeds(tries - 1)) =>
        /\ r = transport[tries]
        /\ Len(Gets) = tries
        /\ Len(Sleeps) = tries - 1
        /\ Len(log) = 2 * tries - 1
        /\ \A k \in 1..Len(log) : log[k].ev = (IF k % 2 = 1 THEN "get" ELSE "sleep")
        /\ \A k \in 0..(tries - 2) :
              SameFraction(Sleeps[k + 1].delay,
                           <<InitialDelay[1] * Pow(backoff[1], k),
                             InitialDelay[2] * Pow(backoff[2], k)>>)

C8_Witness ==
    /\ pc = "gwr_done"
    /\ tries = 3
    /\ FailsThenSucceeds(2)
    /\ backoff = <<3, 2>>
    /\ r.kind = "response"
    /\ Len(Sleeps) = 2

\* C9: when every request fails the call makes exactly max(1, tries) requests
\* and raises the error of the last one; a response, whatever its status, is
\* returned by the request that obtained it and is the last request made.
C9_RetryExhaustion ==
    pc = "gwr_done" =>
        /\ AlwaysFails =>
              /\ Len(Gets) = Max(1, tries)
              /\ r = Raised(transport[Max(1, tries)].err)
        /\ \A k \in 1..Max(1, tries) :
              FailsThenSucceeds(k - 1) =>
                  /\ r = transport[k]
                  /\ Len(Gets) = k

C9_Witness ==
    /\ pc = "gwr_done"
    /\ tries = 3
    /\ AlwaysFails
    /\ transport[2].err # transport[3].err
    /\ r.kind = "raised"
    /\ r.err = transport[3].err

-----------------------------------------------------------------------------
(* The whole program.                                                      *)

ProgramName == <<"i", "m", "s", "l", "p", "_", "e", "n", "r", "i", "c", "h", ".", "p", "y">>

MainTargets == {HttpsWiki \o AveMaria, <<"2", "5">>, <<"a", "_", "%", "2", "5">>}

SmallRemotes ==
    {<<>>, [t \in {"File:A.pdf"} |-> <<FullRemoteInfo>>], [t \in {"File:A.pdf"} |-> <<>>]}

Init ==
    /\ pc = "import"
    /\ log = <<>>
    /\ GwrIdle
    /\ EtIdle
    /\ argv \in {<<ProgramName>>} \cup {<<ProgramName, t>> : t \in MainTargets}
    /\ title = None
    /\ page = <<>>
    /\ attempts = 0
    /\ metadata = <<>>
    /\ temp_files = <<>>
    /\ titles = <<>>
    /\ by_title = <<>>
    /\ ci = 0
    /\ stdout = <<>>
    /\ exit = None
    /\ remote \in SmallRemotes

Spec == Init /\ [][Next]_vars

\* The lookups of the log.
Lookups == SelectSeq(log, LAMBDA e : e.ev = "lookup")

\* How a finished run ended, read off its final state: the client could not
\* be constructed when a title was resolved and no page was ever looked up.
Exited == pc = "exited"
ClientFailed == Exited /\ title # None /\ Lookups = <<>>
ClientBuilt == Lookups # <<>>
StoppedBeforeResolving == Exited /\ title = None

\* C2: once the target is resolved and the client is there, the run ends
\* having printed exactly one document, whatever fails in the page lookup,
\* the existence poll or the sections.
C2_AlwaysEmits ==
    /\ Len(stdout) <= 1
    /\ (Exited /\ title # None /\ ClientBuilt) => Len(stdout) = 1

\* C3: the exit status is 2 when the client cannot be imported or
\* constructed, 1 when the argument is missing, 0 when the document is printed.
C3_ExitStatus ==
    Exited =>
        /\ ClientFailed => exit = Some(2)
        /\ (StoppedBeforeResolving /\ Len(argv) >= 2) => exit = Some(2)
        /\ (StoppedBeforeResolving /\ Len(argv) < 2) => exit \in {Some(1), Some(2)}
        /\ stdout # <<>> => exit = Some(0)

AveMariaSpaced ==
    <<"A", "v", "e", " ", "M", "a", "r", "i", "a", " ", "(", "B", "a", "c", "h", "-",
      "G", "o", "u", "n", "o", "d", ")">>

\* C5: the title resolved from a permalink has spaces for the underscores of
\* the path, and is the page_title of the document printed: the permalink of
\* Ave_Maria_(Bach-Gounod) gives "Ave Maria (Bach-Gounod)".
C5_PermalinkSpaceNormalized ==
    (IsPermalink(target) /\ title # None) =>
        /\ title[1] = ReplaceChar(Unquote(PermalinkPath(target)), "_", " ")
        /\ target = HttpsWiki \o AveMaria => title[1] = AveMariaSpaced
        /\ \A k \in 1..Len(stdout) : stdout[k].page_title = title[1]

\* The sleeps of two seconds.
PollSleeps == SelectSeq(log, LAMBDA e : e.ev = "sleep" /\ e.delay = <<2, 1>>)

\* What holds of the lookups so far and of the document.
PollSoFar ==
    /\ Len(Lookups) <= 4
    /\ Len(PollSleeps) = Max(Len(Lookups) - 1, 0)
    /\ \A k \in 1..Len(log) :
          /\ (log[k].ev = "lookup" /\ \E j \in 1..(k - 1) : log[j].ev = "lookup")
                => log[k - 1] = SleepEvent(<<2, 1>>)
          /\ log[k] = SleepEvent(<<2, 1>>) => (k < Len(log) /\ log[k + 1].ev = "lookup")
    /\ metadata # <<>> => metadata.exists = page.exists
    /\ \A k \in 1..Len(stdout) : stdout[k].exists = page.exists

\* What holds of every step: a page that exists is not fetched again, and a
\* page still missing after the third re-fetch goes on to the document.
PollStep ==
    /\ (page # <<>> /\ page.exists) => Lookups' = Lookups
    /\ (pc = "poll" /\ ~page.exists /\ Len(Lookups) = 4) =>
          /\ pc' = "basic_info"
          /\ exit' = None
          /\ metadata'.exists = FALSE

\* C12: the existence poll is bounded and stops early: at most 4 lookups, a
\* 2-second sleep right before each one after the first, none after a page
\* that exists; a page still missing after the last is no error, and the
\* document's exists flag is that of the page fetched last.
C12_BoundedPoll == []PollSoFar /\ [][PollStep]_vars

C12_Witness ==
    /\ Exited
    /\ Len(Lookups) = 4
    /\ Len(PollSleeps) = 3
    /\ Len(stdout) = 1
    /\ stdout[1].exists = FALSE
    /\ exit = Some(0)

-----------------------------------------------------------------------------
(* The sections on their own: main from its first try block on, for every  *)
(* page object of the bounds.                                              *)

SectionImgs ==
    {GoodImg,
     Img(None, None, TRUE, NoInfo, FALSE),
     Img(Some("File:B.pdf"), None, FALSE, NoInfo, TRUE)}

SectionPages(t) ==
    {[name |-> t, exists |-> TRUE, attrs |-> at, cats |-> cs, imgs |-> im, revs |-> rv] :
        at \in {Failure("attrs failed"), Answer(Attrs(None))},
        cs \in {Failure("categories failed")}
                \cup {Answer(c) : c \in SeqsUpTo({"Scores", "Pieces"}, MaxCats)},
        im \in {Failure("images failed")}
                \cup {Answer(m) : m \in SeqsUpTo(SectionImgs, MaxImgs)},
        rv \in {Failure("revisions failed")}
                \cup {Answer(v) : v \in SeqsUpTo({Rev(TRUE, 1), Rev(FALSE, 2)}, MaxRevs)}}

InitSections ==
    /\ pc = "basic_info"
    /\ log = <<>>
    /\ GwrIdle
    /\ EtIdle
    /\ argv = <<ProgramName, <<"S">> >>
    /\ title = Some(<<"S">>)
    /\ page \in SectionPages(<<"S">>)
    /\ attempts = 0
    /\ metadata = NewMetadata(<<"S">>, page)
    /\ temp_files = <<>>
    /\ titles = <<>>
    /\ by_title = <<>>
    /\ ci = 0
    /\ stdout = <<>>
    /\ exit = None
    /\ remote \in SmallRemotes

SpecSections == InitSections /\ [][SectionsNext \/ GwrNext]_vars

\* What each section holds when its population does not raise.
ExpectedBasicInfo ==
    Some([page_name |-> page.name, page_title |-> page.name,
          page_id |-> page.attrs.value.page_id,
          namespace |-> page.attrs.value.namespace,
          last_revision |-> page.attrs.value.revision])

ExpectedRevisions ==
    [k \in 1..Min(Len(page.revs.value), RevCap) |->
        [revid |-> page.revs.value[k].revid, user |-> page.revs.value[k].user,
         timestamp |-> page.revs.value[k].timestamp, comment |-> page.revs.value[k].comment]]

\* The file section raises past its inner try blocks.
FilesRaise == page.imgs.kind = "ok" /\ \E k \in 1..Len(page.imgs.value) : page.imgs.value[k].raises
RevisionsRaise ==
    page.revs.kind # "ok" \/ \E k \in 1..Len(page.revs.value) : ~page.revs.value[k].dict

\* The files of a run without failure: one record per listed image, in
\* order, either as seeded or as reconciled with what the wiki told.
ExpectedFiles(doc) ==
    LET imgs == IF page.imgs.kind = "ok" THEN page.imgs.value ELSE <<>>
    IN /\ Len(doc.files) = Len(imgs)
       /\ \A k \in 1..Len(imgs) :
             /\ doc.files[k].name = imgs[k].name
             /\ doc.files[k].title = (IF imgs[k].name # None THEN imgs[k].name
                                       ELSE imgs[k].page_title)
       /\ doc.files \in {SeedRecords(imgs), MergeAll(SeedRecords(imgs), by_title)}
       /\ \A t \in DOMAIN by_title : t \in DOMAIN remote /\ by_title[t] = remote[t][1]

\* C1: whichever sections raise, the run prints its document, and every
\* section that does not raise holds what the page gives for it, with no
\* error key; a raising basic info, categories or file section is left at
\* its default with its error recorded.
C1_SectionIsolation ==
    Exited =>
        /\ Len(stdout) = 1
        /\ LET doc == stdout[1]
           IN /\ page.attrs.kind = "ok" =>
                    doc.basic_info = ExpectedBasicInfo /\ doc.basic_info_error = None
              /\ page.attrs.kind # "ok" =>
                    doc.basic_info = None /\ doc.basic_info_error = Some(page.attrs.msg)
              /\ page.cats.kind = "ok" =>
                    doc.categories = page.cats.value /\ doc.categories_error = None
              /\ page.cats.kind # "ok" =>
                    doc.categories = <<>> /\ doc.categories_error = Some(page.cats.msg)
              /\ ~FilesRaise => ExpectedFiles(doc) /\ doc.files_error = None
              /\ FilesRaise => doc.files = <<>> /\ doc.files_error # None
              /\ ~RevisionsRaise =>
                    doc.revision_history = ExpectedRevisions
                        /\ doc.revision_history_error = None
              /\ RevisionsRaise => doc.revision_history_error # None

C1_Witness ==
    /\ Exited
    /\ Len(stdout) = 1
    /\ page.cats.kind = "raise"
    /\ page.attrs.kind = "ok"
    /\ stdout[1].categories = <<>>
    /\ stdout[1].categories_error = Some("categories failed")
    /\ stdout[1].basic_info # None
    /\ Len(stdout[1].files) = 2
    /\ stdout[1].files[1].url = Some(UrlRemote)
    /\ Len(stdout[1].revision_history) = 2

\* C13: when the page operation that populates a section raises (the
\* attribute reads, categories(), images(), revisions()), the document
\* printed holds that section's error key with the failure's text.
C13_ErrorRecorded ==
    \A k \in 1..Len(stdout) :
        /\ page.attrs.kind = "raise" => stdout[k].basic_info_error = Some(page.attrs.msg)
        /\ page.cats.kind = "raise" => stdout[k].categories_error = Some(page.cats.msg)
        /\ page.imgs.kind = "raise" => stdout[k].files_error = Some(page.imgs.msg)
        /\ page.revs.kind = "raise" => stdout[k].revision_history_error = Some(page.revs.msg)

\* C14: a section whose error key is in the document printed is at its
\* default: no basic info, no categories, no files, no revision history.
C14_ErrorMeansDefault ==
    \A k \in 1..Len(stdout) :
        /\ stdout[k].basic_info_error # None => stdout[k].basic_info = None
        /\ stdout[k].categories_error # None => stdout[k].categories = <<>>
        /\ stdout[k].files_error # None => stdout[k].files = <<>>
        /\ stdout[k].revision_history_error # None => stdout[k].revision_history = <<>>

-----------------------------------------------------------------------------
(* The merge loop on its own, run twice over the same mapping.             *)

MergeImgs ==
    {Img(Some("File:A.pdf"), None, TRUE, inf, FALSE) : inf \in SeedInfos}
        \cup {Img(Some("File:A.pdf"), None, FALSE, NoInfo, FALSE),
              Img(None, None, TRUE, FullSeedInfo, FALSE)}

MergeMappings ==
    {<<>>} \cup {[t \in {"File:A.pdf"} |-> inf] : inf \in RemoteInfos}

InitMerge ==
    /\ pc = "merge"
    /\ log = <<>>
    /\ GwrIdle
    /\ EtIdle
    /\ argv = <<>>
    /\ title = None
    /\ page = <<>>
    /\ attempts = 0
    /\ metadata = <<>>
    /\ temp_files \in {SeedRecords(m) : m \in SeqsUpTo(MergeImgs, MaxMerge)}
    /\ titles = <<>>
    /\ by_title \in MergeMappings
    /\ ci = 0
    /\ stdout = <<>>
    /\ exit = None
    /\ remote = <<>>

\* for f in temp_files: ... over the whole list
MergeOnce ==
    /\ pc = "merge"
    /\ temp_files' = MergeAll(temp_files, by_title)
    /\ pc' = "merge_again"
    /\ UNCHANGED <<log, gwrVars, etVars, argv, title, page, attempts, metadata, titles,
                   by_title, ci, stdout, exit, remote>>

\* the same loop a second time
MergeAgain ==
    /\ pc = "merge_again"
    /\ temp_files' = MergeAll(temp_files, by_title)
    /\ pc' = "merged"
    /\ UNCHANGED <<log, gwrVars, etVars, argv, title, page, attempts, metadata, titles,
                   by_title, ci, stdout, exit, remote>>

SpecMerge == InitMerge /\ [][MergeOnce \/ MergeAgain]_vars

\* C10: the merge loop is idempotent: run again over the records it has
\* reconciled, with the same mapping, it changes no field of any record.
C10_MergeIdempotent == [][pc = "merge_again" => temp_files' = temp_files]_vars

C10_Witness ==
    /\ pc = "merged"
    /\ Len(temp_files) = 2
    /\ by_title # <<>>
    /\ temp_files[1].url = Some(UrlRemote)
    /\ temp_files[1].download_urls.original = Some(UrlRemote)
    /\ temp_files[1].sha1 = Some("aa")
    /\ temp_files[2].title = None

-----------------------------------------------------------------------------
(* The file section on its own, for listings longer than the seed cap and  *)
(* the chunk size.                                                         *)

ListedCounts == {0, 1, 49, 50, 51, 99, 100, 101, MaxListed}

FilePages(t) ==
    {[name |-> t, exists |-> TRUE, attrs |-> Answer(Attrs(Some(7))), cats |-> Answer(<<>>),
      imgs |-> im, revs |-> Answer(<<>>)] :
        im \in {Failure("images failed")}
                \cup {Answer(Listing(n, gap)) : n \in ListedCounts, gap \in {0, 2, 3}}}

InitFiles ==
    /\ pc = "files"
    /\ log = <<>>
    /\ GwrIdle
    /\ EtIdle
    /\ argv = <<ProgramName, <<"S">> >>
    /\ title = Some(<<"S">>)
    /\ page \in FilePages(<<"S">>)
    /\ attempts = 0
    /\ metadata = CategoriesSection(BasicInfoSection(NewMetadata(<<"S">>, page), page), page)
    /\ temp_files = <<>>
    /\ titles = <<>>
    /\ by_title = <<>>
    /\ ci = 0
    /\ stdout = <<>>
    /\ exit = None
    /\ remote = KnownFiles

FilesNext == MainSeedFiles \/ MainChunkCall \/ MainChunkReturned \/ MainMerge

SpecFiles == InitFiles /\ [][FilesNext \/ GwrNext]_vars

\* The batched queries of the log.
Queries == SelectSeq(log, LAMBDA e : e.ev = "query")

\* The images listed, the first 100 of them, and the names of those that
\* have one, in listing order.
Listed == IF page.imgs.kind = "ok" THEN page.imgs.value ELSE <<>>
FirstHundred == SubSeq(Listed, 1, Min(Len(Listed), 100))
NamedOfFirstHundred == SelectSeq(FirstHundred, LAMBDA im : im.name # None)
FirstHundredKeys == [k \in 1..Len(NamedOfFirstHundred) |-> NamedOfFirstHundred[k].name[1]]

\* The chunk loop ran to its end.
ChunksDone == pc = "revisions" /\ ci >= Len(titles)

\* C11: at most 100 images are seeded; the titles collected are those of the
\* first 100 images, in order; the k-th batched query asks for the k-th run
\* of 50 of them, so the queries are at most 2, hold at most 50 titles each,
\* are consecutive and disjoint, and name nothing past the first 100; when
\* the loop runs to its end they are ceil(min(n, 100) / 50) and cover every
\* title collected.
C11_Chunking ==
    pc # "files" =>
        /\ Len(temp_files) = Len(FirstHundred)
        /\ Len(temp_files) <= 100
        /\ titles = FirstHundredKeys
        /\ Len(Queries) <= 2
        /\ Len(Queries) <= (Min(Len(titles), 100) + 49) \div 50
        /\ \A k \in 1..Len(Queries) :
              /\ Queries[k].titles =
                    SubSeq(FirstHundredKeys, 50 * (k - 1) + 1,
                           Min(50 * k, Len(FirstHundredKeys)))
              /\ Len(Queries[k].titles) \in 1..50
              /\ \A j \in 101..Len(Listed) : \A m \in 1..Len(Queries[k].titles) :
                    Listed[j].name # Some(Queries[k].titles[m])
        /\ ChunksDone => Len(Queries) = (Min(Len(titles), 100) + 49) \div 50
        /\ (ChunksDone /\ Len(Listed) = 120 /\ Len(titles) = 100) =>
              /\ Len(Queries) = 2
              /\ Len(Queries[1].titles) = 50
              /\ Len(Queries[2].titles) = 50

C11_Witness ==
    /\ ChunksDone
    /\ Len(Listed) = 120
    /\ Len(temp_files) = 100
    /\ Len(titles) = 100
    /\ Len(Queries) = 2
    /\ Queries[1].titles[50] = "50"
    /\ Queries[2].titles[1] = "51"
    /\ Queries[2].titles[50] = "100"

\* What a step does after a chunk's query gave a response that is not OK, and
\* what the steps after it do: the loop goes on with the mapping as it was,
\* the next chunk is asked for, and the merge reconciles every record whose
\* title the mapping holds and records no error.
SkippedChunkStep ==
    /\ (pc = "chunk_ret" /\ r.kind = "response" /\ ~Ok(r)) =>
          /\ pc' = "chunks"
          /\ ci' = ci + 50
          /\ by_title' = by_title
          /\ temp_files' = temp_files
          /\ metadata' = metadata
    /\ (pc = "chunks" /\ ci < Len(titles)) =>
          /\ Len(Queries') = Len(Queries) + 1
          /\ Queries'[Len(Queries')].titles = SubSeq(titles, ci + 1, Min(ci + 50, Len(titles)))
    /\ (pc = "chunks" /\ ci >= Len(titles)) =>
          /\ metadata'.files_error = None
          /\ Len(metadata'.files) = Len(temp_files)
          /\ \A k \in 1..Len(temp_files) :
                /\ metadata'.files[k].title = temp_files[k].title
                /\ (temp_files[k].title # None /\ temp_files[k].title[1] \in DOMAIN by_title)
                      => /\ metadata'.files[k].url = Some(UrlRemote)
                         /\ metadata'.files[k].sha1 = Some("bb")
                         /\ metadata'.files[k].size = Some(0)

\* C15: a chunk whose query returns a response that is not OK is passed
\* over: the chunks after it are still queried, the records whose titles a
\* successful chunk returned are still reconciled, and no files_error is
\* recorded.
C15_SkippedChunk == [][SkippedChunkStep]_vars

C15_Witness ==
    /\ ChunksDone
    /\ Len(Queries) = 2
    /\ "1" \notin DOMAIN by_title
    /\ "51" \in DOMAIN by_title
    /\ metadata.files[1].url = Some(UrlHttp)
    /\ metadata.files[51].url = Some(UrlRemote)
    /\ metadata.files_error = None

\* What the step does in which a chunk's query raises.
ChunkRaiseEffects ==
    /\ pc' = "revisions"
    /\ Queries' = Queries
    /\ temp_files' = temp_files
    /\ metadata'.files = temp_files
    /\ Len(temp_files) = Len(FirstHundred)
    /\ \A k \in 1..Len(temp_files) :
          /\ temp_files[k].url = Some(UrlHttp)
          /\ temp_files[k].sha1 = Some("aa")
          /\ temp_files[k].download_urls.original = Some(UrlHttp)
    /\ metadata'.files_error = None

\* C19: when a chunk's query raises (every attempt failed, or the body is
\* no JSON) the chunk loop is left: no later chunk is queried, no record is
\* reconciled, also not those an earlier chunk returned, the files are the
\* seed records and no files_error is recorded.
C19_ChunkRaiseSkipsMerge ==
    [][/\ (pc = "chunk_ret" /\ r.kind = "raised") => ChunkRaiseEffects
       /\ (pc = "chunk_ret" /\ pc' # "chunks") => ChunkRaiseEffects]_vars

C19_Witness ==
    /\ pc = "revisions"
    /\ Len(titles) = 100
    /\ Len(Queries) = 2
    /\ ci = 50
    /\ "1" \in DOMAIN by_title
    /\ Len(Gets) = 4
    /\ log[Len(log)].ev = "sleep"
    /\ metadata.files[1].url = Some(UrlHttp)
    /\ metadata.files_error = None

-----------------------------------------------------------------------------
(* Reconciliation and merge keys, field by field.                          *)

\* The record's title is a key of the mapping.
Keyed(f) == f.title # None /\ f.title[1] \in DOMAIN by_title

\* The remote value when it is not null, the seed value otherwise.
RemoteFirst(remoteValue, seedValue) == IF remoteValue # None THEN remoteValue ELSE seedValue

\* C16: the merge loop leaves a record whose title is no key of the mapping
\* as it was; of a record whose title is a key it sets url, mime_type,
\* timestamp, user, size and sha1 to the remote value when that is not null
\* and leaves the seed value otherwise, and it leaves name and title alone.
C16_FieldPrecedence ==
    [][pc = "merge" =>
        /\ Len(temp_files') = Len(temp_files)
        /\ \A k \in 1..Len(temp_files) :
              LET f == temp_files[k]
                  g == temp_files'[k]
              IN /\ ~Keyed(f) => g = f
                 /\ Keyed(f) =>
                       LET info == by_title[f.title[1]]
                       IN /\ g.name = f.name
                          /\ g.title = f.title
                          /\ g.url = RemoteFirst(info.url, f.url)
                          /\ g.mime_type = RemoteFirst(info.mime, f.mime_type)
                          /\ g.timestamp = RemoteFirst(info.timestamp, f.timestamp)
                          /\ g.user = RemoteFirst(info.user, f.user)
                          /\ g.size = RemoteFirst(info.size, f.size)
                          /\ g.sha1 = RemoteFirst(info.sha1, f.sha1)]_vars

\* C17: after the merge loop every record it reconciled (its title is a key
\* of the mapping and the info found holds something) has its download_urls
\* computed from its final url: direct is that url, https is that url with
\* http: rewritten to https:.
C17_DownloadUrlsFromFinalUrl ==
    pc \in {"merge_again", "merged"} =>
        \A k \in 1..Len(temp_files) :
            LET f == temp_files[k]
            IN (Keyed(f) /\ by_title[f.title[1]] # NoInfo) =>
                  /\ f.download_urls.direct = f.url
                  /\ f.download_urls.https =
                        (IF f.url = None THEN None ELSE Some(Replace(f.url[1], Http, Https)))

\* C18: the merge key of a seeded record is the listed image's title when it
\* has one and its name only otherwise, and the titles collected are those
\* keys, in order; an image with neither gives no key.
C18_MergeKeyIsTitle ==
    (pc \notin {"basic_info", "categories", "files"} /\ page.imgs.kind = "ok") =>
        /\ \A k \in 1..Len(temp_files) :
              temp_files[k].title =
                  (IF Listed[k].page_title # None THEN Listed[k].page_title
                   ELSE Listed[k].name)
        /\ LET keyed == SelectSeq(temp_files, LAMBDA f : f.title # None)
           IN titles = [k \in 1..Len(keyed) |-> keyed[k].title[1]]

-----------------------------------------------------------------------------
(* The whole program against a wiki whose pages list more files than one   *)
(* chunk holds.                                                            *)

InitLong ==
    /\ pc = "import"
    /\ log = <<>>
    /\ GwrIdle
    /\ EtIdle
    /\ argv \in {<<ProgramName>>} \cup {<<ProgramName, t>> : t \in MainTargets}
    /\ title = None
    /\ page = <<>>
    /\ attempts = 0
    /\ metadata = <<>>
    /\ temp_files = <<>>
    /\ titles = <<>>
    /\ by_title = <<>>
    /\ ci = 0
    /\ stdout = <<>>
    /\ exit = None
    /\ remote = KnownFiles

SpecLong == InitLong /\ [][Next]_vars

ImageInfoGets == SelectSeq(log, LAMBDA e : e.ev = "get" /\ e.url = "api.php?prop=imageinfo")

\* The requests of the resolution, in order.
ResolutionGets ==
    SelectSeq(log, LAMBDA e : e.ev = "get" /\ e.url \in {"api.php?prop=info", "index.php?curid"})

\* How far the run is: a number that every step of the program raises.
Progress ==
    CASE pc = "import" -> 0
      [] pc = "main" -> 1
      [] pc = "extract_title" -> 2
      [] pc = "gwr_loop" /\ retpc = "et_api_ret" -> 3 + i
      [] pc = "et_api_ret" -> 7
      [] pc = "et_html" -> 8
      [] pc = "et_done" -> 9
      [] pc = "lookup" -> 10
      [] pc = "poll" -> 11 + attempts
      [] pc = "basic_info" -> 15
      [] pc = "categories" -> 16
      [] pc = "files" -> 17
      [] pc = "chunks" -> 20 + 10 * (ci \div 50)
      [] pc = "gwr_loop" /\ retpc = "chunk_ret" -> 21 + 10 * (ci \div 50) + i
      [] pc = "chunk_ret" -> 26 + 10 * (ci \div 50)
      [] pc = "revisions" -> 50
      [] pc = "print" -> 51
      [] pc = "exited" -> 52

\* The run is at a place from which the code goes on: what a call was to
\* give its caller is there, and what a step reads has been set.
StepAvailable ==
    CASE pc = "gwr_loop" -> retpc \in {"et_api_ret", "chunk_ret"}
      [] pc \in {"et_api_ret", "chunk_ret"} -> r.kind \in {"raised", "response"}
      [] pc = "et_done" -> ret # None /\ ret[1].kind = "return"
      [] pc = "lookup" -> title # None
      [] pc = "poll" -> page # <<>>
      [] pc \in {"basic_info", "categories", "files", "chunks", "revisions", "print"} ->
            metadata # <<>>
      [] OTHER -> pc \in {"import", "main", "extract_title", "et_html", "exited"}

\* The requests and lookups so far are within their bounds, the HTML page
\* is asked for after the structured requests, and a run that has not
\* exited is at a place from which the code goes on.
WithinBounds ==
    /\ Len(InfoGets) <= 3
    /\ Len(HtmlGets) <= 1
    /\ \A k \in 1..(Len(ResolutionGets) - 1) : ResolutionGets[k].url = "api.php?prop=info"
    /\ Len(Lookups) <= 4
    /\ Len(Queries) <= 2
    /\ Len(ImageInfoGets) <= 6
    /\ Progress \in 0..52
    /\ StepAvailable

\* C20: every run terminates: each step raises Progress, which stays within
\* 0..52, and a run that has not exited is where the code goes on; resolution makes at
\* most 3 structured requests and then at most 1 HTML request, main looks
\* the page up at most 4 times, and the file section makes at most 6
\* imageinfo requests in at most 2 chunks.
C20_Terminates == []WithinBounds /\ [][Progress' > Progress]_vars

C20_Witness ==
    /\ Exited
    /\ Len(stdout) = 1
    /\ Len(InfoGets) = 3
    /\ Len(HtmlGets) = 1
    /\ Len(Lookups) = 4
    /\ Len(Queries) = 2
    /\ Len(ImageInfoGets) = 6

=============================================================================
